---- MODULE Spec2Model ----
(***************************************************************************)
(* Sync of rsync_client.go: the checksum table builder (the range loop     *)
(* over c), the scanner goroutine (cancellation check, Read, weak/strong   *)
(* match, send on o), the context, the reader r, the strong hash shash     *)
(* and the consumer of the operation stream.                               *)
(***************************************************************************)
EXTENDS Integers, Sequences, FiniteSets, TLC

\* ------------------------------------------------------------- bounds
\* number of BlockChecksum values the producer delivers on c, at most
MaxSums == 2
\* length of the local file in bytes, at most
MaxFileLen == 2
\* successful Reads of one run, at most (the loop of the scanner is cut here)
MaxOps == 2

\* ------------------------------------------------- program constants
\* the block size; the capacity of buffer
DefaultBlockSize == 1
\* buffer made with its capacity as its length: make([]byte, DefaultBlockSize)
BufLenBlock == DefaultBlockSize

\* make([]byte, 0, DefaultBlockSize): the LENGTH of buffer, which is what
\* r.Read(buffer) may fill
BufLen == 0
\* the capacity of buffer
BufCap == DefaultBlockSize
\* the size of a digest of shash, in bytes
DigestLen == 1

\* the number of values of a weak checksum (a uint32, scaled down)
WeakMod == 2

Byte == {0, 1}

Min(a, b) == IF a < b THEN a ELSE b

\* byte sequences of at most n bytes
SeqsUpTo(n) == UNION {[1..k -> Byte] : k \in 0..n}

\* the contents a block (of the remote file, or written to shash) may have
Blocks == SeqsUpTo(DefaultBlockSize)

\* ------------------------------------------------------------ hashes
\* the weak checksum of a block: the sum of its bytes (collisions expected)
RECURSIVE rollingHash(_)
rollingHash(b) ==
    IF b = <<>> THEN 0
    ELSE (rollingHash(SubSeq(b, 1, Len(b) - 1)) + b[Len(b)]) % WeakMod

\* the digest of a byte sequence: collision-free on the sequences of the model
RECURSIVE DigestCode(_)
DigestCode(b) ==
    IF b = <<>> THEN 1
    ELSE 2 * DigestCode(SubSeq(b, 1, Len(b) - 1)) + b[Len(b)]

Digest(b) == <<DigestCode(b)>>

\* hash.Hash.Sum(in): APPENDS the digest of what was written to the hash to in
\* and returns the result; it does not hash in
Sum(written, in) == in \o Digest(written)

\* ------------------------------------------------------ BlockChecksum
\* the checksum the remote side computes for block blk, its i-th (from 0)
RemoteSum(i, blk, err) ==
    [Index |-> i, Weak |-> rollingHash(blk), Strong |-> Digest(blk), Error |-> err]

RemoteEntries == [blk : Blocks, err : BOOLEAN]

RemoteFiles == UNION {[1..k -> RemoteEntries] : k \in 0..MaxSums}

\* ----------------------------------------------------- BlockOperation
\* Data is a slice: nil, or len bytes at the start of buffer's array
NilData == [nil |-> TRUE, len |-> 0]
SliceData(n) == [nil |-> FALSE, len |-> n]

NoError == "nil"
CtxError == "ctx.Err()"
ReadError == "failed reading file"

ZeroOp == [Index |-> 0, IndexB |-> 0, Data |-> NilData, Error |-> NoError]

VARIABLES
    remote,     \* the remote file: its blocks, and whether their checksum failed
    cin,        \* the checksums the producer has still to deliver on c
    cclosed,    \* c is closed
    t,          \* the lookup table: weak checksum -> candidates
    ctxDone,    \* ctx is cancelled
    file,       \* the bytes r has to deliver
    pos,        \* how many of them r has delivered
    shash,      \* what was written to shash
    backing,    \* the array under buffer
    index,      \* the ordinal counter
    block,      \* len(block), the chunk of the current iteration
    op,         \* the operation being sent
    pc,         \* where Sync and its goroutine are
    out,        \* the operations received from o, in order
    closed,     \* o is closed
    term,       \* the terminal transition the scanner made: "", "cancel", "eof", "fail"
    reads,      \* the Read calls so far
    chunks,     \* the chunks the successful Reads delivered, in order
    cancelAt,   \* how many operations had been received when ctx was cancelled; -1: not cancelled
    cancelPc    \* pc when ctx was cancelled; "none": not cancelled

vars == <<remote, cin, cclosed, t, ctxDone, file, pos, shash, backing, index,
          block, op, pc, out, closed, term, reads, chunks, cancelAt, cancelPc>>

\* ------------------------------------------------------------- Init
Init ==
    /\ remote \in RemoteFiles
    /\ cin = [i \in 1..Len(remote) |-> RemoteSum(i - 1, remote[i].blk, remote[i].err)]
    /\ cclosed = FALSE
    /\ t = [w \in 0..(WeakMod - 1) |-> <<>>]
    /\ ctxDone = FALSE
    /\ file \in SeqsUpTo(MaxFileLen)
    /\ pos = 0
    /\ shash \in Blocks
    /\ backing = [i \in 1..BufCap |-> 0]
    /\ index = 0
    /\ block = 0
    /\ op = ZeroOp
    /\ pc = "range"
    /\ out = <<>>
    /\ closed = FALSE
    /\ term = ""
    /\ reads = 0
    /\ chunks = <<>>
    /\ cancelAt = -1
    /\ cancelPc = "none"

\* ------------------------------------------------- the table builder
\* bs, ok := tbl[k]: a key is present once a checksum was appended under it
HasKey(tbl, k) == tbl[k] # <<>>

\* RangeRecv that drops an entry carrying an Error instead of indexing it
RangeRecvSkipErr ==
    /\ pc = "range"
    /\ cin # <<>>
    /\ t' = IF Head(cin).Error THEN t
            ELSE [t EXCEPT ![Head(cin).Weak] = Append(@, Head(cin))]
    /\ cin' = Tail(cin)
    /\ UNCHANGED <<remote, cclosed, ctxDone, file, pos, shash, backing, index,
                   block, op, pc, out, closed, term, reads, chunks, cancelAt,
                   cancelPc>>

\* one iteration of "for sum := range c": the entry is appended to its
\* bucket whether or not it carries an Error (the warning changes no state)
RangeRecv ==
    /\ pc = "range"
    /\ cin # <<>>
    /\ t' = [t EXCEPT ![Head(cin).Weak] = Append(@, Head(cin))]
    /\ cin' = Tail(cin)
    /\ UNCHANGED <<remote, cclosed, ctxDone, file, pos, shash, backing, index,
                   block, op, pc, out, closed, term, reads, chunks, cancelAt,
                   cancelPc>>

\* the producer closes c, having delivered its checksums
CloseC ==
    /\ ~cclosed
    /\ cin = <<>>
    /\ cclosed' = TRUE
    /\ UNCHANGED <<remote, cin, t, ctxDone, file, pos, shash, backing, index,
                   block, op, pc, out, closed, term, reads, chunks, cancelAt,
                   cancelPc>>

\* RangeEnd of a builder that also selects on ctx.Done()
RangeEndOnCancel ==
    /\ pc = "range"
    /\ (cclosed /\ cin = <<>>) \/ ctxDone
    /\ index' = 0
    /\ backing' = [i \in 1..BufCap |-> 0]
    /\ pc' = "select"
    /\ UNCHANGED <<remote, cin, cclosed, t, ctxDone, file, pos, shash, block, op,
                   out, closed, term, reads, chunks, cancelAt, cancelPc>>

\* RangeEnd that does not wait for c to be closed and drained
RangeEndEarly ==
    /\ pc = "range"
    /\ index' = 0
    /\ backing' = [i \in 1..BufCap |-> 0]
    /\ pc' = "select"
    /\ UNCHANGED <<remote, cin, cclosed, t, ctxDone, file, pos, shash, block, op,
                   out, closed, term, reads, chunks, cancelAt, cancelPc>>

\* the range loop ends on the closed channel: index, buffer and o are made,
\* the goroutine is started and Sync returns o
RangeEnd ==
    /\ pc = "range"
    /\ cclosed
    /\ cin = <<>>
    /\ index' = 0
    /\ backing' = [i \in 1..BufCap |-> 0]
    /\ pc' = "select"
    /\ UNCHANGED <<remote, cin, cclosed, t, ctxDone, file, pos, shash, block, op,
                   out, closed, term, reads, chunks, cancelAt, cancelPc>>

\* ------------------------------------------------------- the context
\* Cancel against a scanner whose sends select on ctx.Done() as well: the
\* cancellation releases a blocked send and the goroutine returns
CancelReleases ==
    /\ ~ctxDone
    /\ ctxDone' = TRUE
    /\ cancelAt' = Len(out)
    /\ cancelPc' = pc
    /\ pc' = IF pc \in {"send", "sendCancel", "sendErr"} THEN "ret" ELSE pc
    /\ UNCHANGED <<remote, cin, cclosed, t, file, pos, shash, backing, index,
                   block, op, out, closed, term, reads, chunks>>

\* the caller cancels ctx
Cancel ==
    /\ ~ctxDone
    /\ ctxDone' = TRUE
    /\ cancelAt' = Len(out)
    /\ cancelPc' = pc
    /\ UNCHANGED <<remote, cin, cclosed, t, file, pos, shash, backing, index,
                   block, op, pc, out, closed, term, reads, chunks>>

\* ------------------------------------------------------- the scanner
\* Sync is past its range loop and its goroutine has not returned
Scanning == pc \in {"select", "read", "send", "inc"}

\* CheckCtx without the case <-ctx.Done(): the loop goes on to the Read
CheckCtxBlind ==
    /\ pc = "select"
    /\ pc' = "read"
    /\ UNCHANGED <<remote, cin, cclosed, t, ctxDone, file, pos, shash, backing,
                   index, block, op, term, out, closed, reads, chunks, cancelAt,
                   cancelPc>>

\* CheckCtx that returns on a cancelled context without sending anything
CheckCtxSilent ==
    /\ pc = "select"
    /\ IF ctxDone
       THEN /\ pc' = "ret"
            /\ term' = "cancel"
       ELSE /\ pc' = "read"
            /\ UNCHANGED term
    /\ UNCHANGED <<remote, cin, cclosed, t, ctxDone, file, pos, shash, backing,
                   index, block, op, out, closed, reads, chunks, cancelAt, cancelPc>>

\* the select at the top of the loop: a cancelled context makes the terminal
\* operation carrying ctx.Err(), anything else goes on to the Read
CheckCtx ==
    /\ pc = "select"
    /\ IF ctxDone
       THEN /\ op' = [ZeroOp EXCEPT !.Error = CtxError]
            /\ pc' = "sendCancel"
            /\ term' = "cancel"
       ELSE /\ pc' = "read"
            /\ UNCHANGED <<op, term>>
    /\ UNCHANGED <<remote, cin, cclosed, t, ctxDone, file, pos, shash, backing,
                   index, block, out, closed, reads, chunks, cancelAt, cancelPc>>

\* what r.Read(buffer) may return as n: at most len(buffer) bytes, and no
\* more than r has left
ReadCounts == 0..Min(BufLen, Len(file) - pos)

\* the array under buffer once Read has put n bytes of the file into it
Filled(bk, n) ==
    [i \in 1..BufCap |-> IF i <= n THEN file[pos + i] ELSE bk[i]]

\* the array under buffer once shash.Sum(buffer[:n]) has appended its digest:
\* in place when the capacity allows, in a fresh array otherwise
Summed(bk, n, written) ==
    IF n + DigestLen <= BufCap
    THEN [i \in 1..BufCap |->
            IF n < i /\ i <= n + DigestLen THEN Digest(written)[i - n] ELSE bk[i]]
    ELSE bk

\* "for _, b := range bs": every candidate whose Strong equals sum overwrites
\* op.IndexB, so the last one that matches stays; ib is IndexB so far
RECURSIVE MatchLoop(_, _, _)
MatchLoop(bs, sum, ib) ==
    IF bs = <<>> THEN ib
    ELSE MatchLoop(Tail(bs), sum, IF sum = Head(bs).Strong THEN Head(bs).Index ELSE ib)

\* the operation made of the chunk blk (n bytes) with the ordinal idx: a weak
\* checksum in the table leaves Data unset and IndexB at what MatchLoop found
\* (0 when nothing matched); only a weak checksum not in the table sets Data
MakeOp(idx, n, blk, tbl, written) ==
    IF HasKey(tbl, rollingHash(blk))
    THEN [Index |-> idx,
          IndexB |-> MatchLoop(tbl[rollingHash(blk)], Sum(written, blk), 0),
          Data |-> NilData,
          Error |-> NoError]
    ELSE [Index |-> idx, IndexB |-> 0, Data |-> SliceData(n), Error |-> NoError]

\* Read returns n bytes and no error: the chunk is hashed, matched and made
\* into the operation to send
ReadOK ==
    /\ pc = "read"
    /\ Len(chunks) < MaxOps
    /\ \E n \in ReadCounts :
         LET blk == SubSeq(file, pos + 1, pos + n) IN
         /\ pos' = pos + n
         /\ block' = n
         /\ chunks' = Append(chunks, blk)
         /\ op' = MakeOp(index, n, blk, t, shash)
         /\ backing' = IF HasKey(t, rollingHash(blk))
                       THEN Summed(Filled(backing, n), n, shash)
                       ELSE Filled(backing, n)
    /\ reads' = reads + 1
    /\ pc' = "send"
    /\ UNCHANGED <<remote, cin, cclosed, t, ctxDone, file, shash, index, out,
                   closed, term, cancelAt, cancelPc>>

\* ReadEOF whose break leaves no loop: the scanner goes back to the top
ReadEOFContinue ==
    /\ pc = "read"
    /\ \E n \in 0..Min(BufLen, Len(file) - pos) :
         /\ pos + n = Len(file)
         /\ pos' = pos + n
         /\ backing' = [i \in 1..BufCap |-> IF i <= n THEN file[pos + i] ELSE backing[i]]
    /\ reads' = reads + 1
    /\ term' = "eof"
    /\ pc' = "select"
    /\ UNCHANGED <<remote, cin, cclosed, t, ctxDone, file, shash, index, block,
                   op, out, closed, chunks, cancelAt, cancelPc>>

\* Read returns io.EOF, with the last n bytes or with none: the loop is left
\* and whatever came with the error is dropped
ReadEOF ==
    /\ pc = "read"
    /\ \E n \in ReadCounts :
         /\ pos + n = Len(file)
         /\ pos' = pos + n
         /\ backing' = Filled(backing, n)
    /\ reads' = reads + 1
    /\ term' = "eof"
    /\ pc' = "ret"
    /\ UNCHANGED <<remote, cin, cclosed, t, ctxDone, file, shash, index, block,
                   op, out, closed, chunks, cancelAt, cancelPc>>

\* ReadErr without its return: the error operation is sent as any other and
\* the loop goes on
ReadErrResume ==
    /\ pc = "read"
    /\ \E n \in 0..Min(BufLen, Len(file) - pos) :
         /\ pos' = pos + n
         /\ backing' = [i \in 1..BufCap |-> IF i <= n THEN file[pos + i] ELSE backing[i]]
    /\ reads' = reads + 1
    /\ op' = [ZeroOp EXCEPT !.Error = ReadError]
    /\ term' = "fail"
    /\ pc' = "send"
    /\ UNCHANGED <<remote, cin, cclosed, t, ctxDone, file, shash, index, block,
                   out, closed, chunks, cancelAt, cancelPc>>

\* Read returns another error: the terminal operation carrying the wrapped
\* error is made; its Index stays the zero value
ReadErr ==
    /\ pc = "read"
    /\ \E n \in ReadCounts :
         /\ pos' = pos + n
         /\ backing' = Filled(backing, n)
    /\ reads' = reads + 1
    /\ op' = [ZeroOp EXCEPT !.Error = ReadError]
    /\ term' = "fail"
    /\ pc' = "sendErr"
    /\ UNCHANGED <<remote, cin, cclosed, t, ctxDone, file, shash, index, block,
                   out, closed, chunks, cancelAt, cancelPc>>

\* the scanner is in "o <- ...", which a receive completes
Sending == pc \in {"send", "sendCancel", "sendErr"}

\* the consumer of the stream receives the operation the scanner is sending.
\* The scanner is written against such a consumer; the type of o (oDir below)
\* gives the caller of Sync no receive, which is why CallerSpec has no Recv.
Recv ==
    /\ Sending
    /\ out' = Append(out, op)
    /\ pc' = IF pc = "send" THEN "inc" ELSE "ret"
    /\ UNCHANGED <<remote, cin, cclosed, t, ctxDone, file, pos, shash, backing,
                   index, block, op, closed, term, reads, chunks, cancelAt,
                   cancelPc>>

\* a send that does not wait for the receiver (a buffered o): the loop goes on
\* from the send as it does after a receive
IncIndexNoWait ==
    /\ pc \in {"send", "inc"}
    /\ index' = index + 1
    /\ pc' = "select"
    /\ UNCHANGED <<remote, cin, cclosed, t, ctxDone, file, pos, shash, backing,
                   block, op, out, closed, term, reads, chunks, cancelAt,
                   cancelPc>>

\* IncIndex without the index++
IncIndexStuck ==
    /\ pc = "inc"
    /\ pc' = "select"
    /\ UNCHANGED <<remote, cin, cclosed, t, ctxDone, file, pos, shash, backing,
                   index, block, op, out, closed, term, reads, chunks, cancelAt,
                   cancelPc>>

\* index++ and back to the top of the loop
IncIndex ==
    /\ pc = "inc"
    /\ index' = index + 1
    /\ pc' = "select"
    /\ UNCHANGED <<remote, cin, cclosed, t, ctxDone, file, pos, shash, backing,
                   block, op, out, closed, term, reads, chunks, cancelAt,
                   cancelPc>>

\* a return, and its close(o), that does not wait for the terminal operation
\* to be received
ReturnNoHandoff ==
    /\ pc \in {"ret", "sendCancel", "sendErr"}
    /\ closed' = TRUE
    /\ pc' = "done"
    /\ UNCHANGED <<remote, cin, cclosed, t, ctxDone, file, pos, shash, backing,
                   index, block, op, out, term, reads, chunks, cancelAt,
                   cancelPc>>

\* the goroutine returns: the deferred close(o)
Return ==
    /\ pc = "ret"
    /\ closed' = TRUE
    /\ pc' = "done"
    /\ UNCHANGED <<remote, cin, cclosed, t, ctxDone, file, pos, shash, backing,
                   index, block, op, out, term, reads, chunks, cancelAt,
                   cancelPc>>

\* ---------------------------------------------------- specifications
\* the steps of Sync and of its goroutine
Builder == RangeRecv \/ RangeEnd
Scanner == CheckCtx \/ ReadOK \/ ReadEOF \/ ReadErr \/ IncIndex \/ Return

\* Sync with a producer of checksums, a canceller and a consumer of the stream
Next ==
    \/ RangeRecv
    \/ CloseC
    \/ RangeEnd
    \/ Cancel
    \/ CheckCtx
    \/ ReadOK
    \/ ReadEOF
    \/ ReadErr
    \/ Recv
    \/ IncIndex
    \/ Return

Spec == Init /\ [][Next]_vars

\* the type of o, and of what Sync returns: make(chan<- BlockOperation)
oDir == "chan<-"

\* the channel types a receive compiles for
CanReceive(dir) == dir \in {"chan", "<-chan"}

\* a receive by the caller of Sync, on the value Sync returned
CallerRecv == CanReceive(oDir) /\ Recv

\* Sync with the caller it has: one that holds o as a send-only channel, so
\* that no step of the caller receives from it
CallerNext ==
    \/ RangeRecv
    \/ CloseC
    \/ RangeEnd
    \/ Cancel
    \/ CheckCtx
    \/ ReadOK
    \/ ReadEOF
    \/ ReadErr
    \/ Return

\* the scheduler runs Sync and its goroutine whenever they can take a step, and
\* the producer closes c; whether a Read fails is up to r
CallerSpec ==
    /\ Init
    /\ [][CallerNext]_vars
    /\ WF_vars(RangeRecv \/ RangeEnd)
    /\ WF_vars(CloseC)
    /\ WF_vars(CheckCtx \/ ReadOK \/ ReadEOF \/ Return)

\* ------------------------------------------------------------ claims
\* the bytes of a Data slice, as the array under it has them now
DataBytes(o) == SubSeq(backing, 1, o.Data.len)

\* how the receiver reads an operation without Error: Data set is a literal,
\* Data unset is "copy the remote block IndexB"
IsLiteral(o) == o.Error = NoError /\ ~o.Data.nil
IsReuse(o) == o.Error = NoError /\ o.Data.nil

\* the weak checksum of blk has a bucket and no candidate of it has blk's digest
StrongMiss(blk) ==
    /\ HasKey(t, rollingHash(blk))
    /\ \A i \in 1..Len(t[rollingHash(blk)]) : t[rollingHash(blk)][i].Strong # Digest(blk)

\* the chunk of the current iteration
CurChunk == chunks[Len(chunks)]

\* C1: a chunk whose weak checksum is in the table and whose strong hash is
\* the Strong of no candidate is sent as a literal carrying the chunk's bytes,
\* never as something the receiver reads as a reuse of a remote block.
C1_CollisionYieldsLiteral ==
    (pc = "send" /\ StrongMiss(CurChunk))
        => (IsLiteral(op) /\ DataBytes(op) = CurChunk /\ ~IsReuse(op))

\* the content of the remote block an operation refers to (nothing when the
\* remote file has no such block)
RemoteBlock(ib) == IF ib < Len(remote) THEN remote[ib + 1].blk ELSE <<>>

\* what the receiver rebuilds from operations: the Data of a literal, the
\* remote block of a reuse, in order
RECURSIVE Rebuilt(_)
Rebuilt(ops) ==
    IF ops = <<>> THEN <<>>
    ELSE LET o == Head(ops) IN
         (IF o.Error # NoError THEN <<>>
          ELSE IF IsLiteral(o) THEN DataBytes(o)
          ELSE RemoteBlock(o.IndexB)) \o Rebuilt(Tail(ops))

\* the scan ended by reading end-of-input and the stream is closed
Completed == pc = "done" /\ term = "eof"

\* C2: round trip: after a completed scan, the literal Data and the referenced
\* remote blocks of the operations received, concatenated in order, are the
\* local file.
C2_RoundTrip == Completed => Rebuilt(out) = file

\* C3: with no cancellation and no read error the scanner eventually reads
\* end-of-input, stops and closes the stream.
C3_EventuallyCompleted == <>(closed \/ ctxDone \/ term = "fail")

\* C4: the caller of Sync is the consumer of the stream: whenever the scanner is
\* in a send on o, a receive by the caller on what Sync returned can complete it.
C4_CallerCanReceive == Sending => ENABLED CallerRecv

\* the positions of the operations received that carry an Error
ErrorOps == {k \in 1..Len(out) : out[k].Error # NoError}

\* the stream as sent so far: what was received, then what is being sent
Stream == IF Sending THEN Append(out, op) ELSE out

\* nothing is read and one operation, carrying ctx.Err(), is emitted after
\* the cancelAt operations received when ctx was cancelled
OneMoreThenStop ==
    /\ Len(chunks) = cancelAt
    /\ Len(out) <= cancelAt + 1
    /\ (Len(out) = cancelAt + 1 => out[cancelAt + 1].Error = CtxError)
    /\ (pc = "done" => Len(out) = cancelAt + 1)

\* C5 as stated: ctx cancelled at any moment after the operation for chunk i
\* was emitted (and before chunk i+1 was read): exactly one further operation,
\* carrying the cancellation error, and chunk i+1 is never read nor emitted.
C5_CancelAnyMoment ==
    (cancelAt >= 1 /\ cancelPc \in {"inc", "select", "read"}) => OneMoreThenStop

\* C5 as amended: ctx cancelled after the operation for chunk i was emitted and
\* before the scanner's next cancellation check: exactly one further
\* operation, carrying the cancellation error, and chunk i+1 is never read
\* nor emitted.
C5_CancelBeforeCheck ==
    (cancelAt >= 1 /\ cancelPc \in {"inc", "select"}) => OneMoreThenStop

C5_Witness ==
    /\ cancelAt >= 1
    /\ cancelPc \in {"inc", "select"}
    /\ pc = "done"
    /\ Len(out) = cancelAt + 1

\* the stream ended with one terminal operation, carrying the cancellation error
EndsWithCancelOp ==
    /\ out # <<>>
    /\ out[Len(out)].Error = CtxError
    /\ ErrorOps = {Len(out)}

\* C6 as stated: ctx cancelled before the scanner reached a terminal state: the
\* stream is never closed without having ended with exactly one terminal
\* operation carrying the cancellation error.
C6_CancelNeverSilent ==
    (closed /\ cancelPc \in {"range", "select", "read", "send", "inc"})
        => EndsWithCancelOp

\* C6 as amended: the scanner's cancellation check found ctx cancelled: the
\* operation it sends carries the cancellation error, and the stream is never
\* closed without having ended with exactly that one terminal operation.
C6_ObservedCancelNeverSilent ==
    term = "cancel" =>
        /\ pc = "sendCancel" => (op.Error = CtxError /\ ErrorOps = {})
        /\ pc \in {"ret", "done"} => EndsWithCancelOp
        /\ pc \in {"sendCancel", "ret", "done"}

C6_Witness == term = "cancel" /\ closed /\ Len(out) >= 2

\* C7: a Read fails after j chunks were read: the stream is j operations without
\* Error with the ordinals 0..j-1, then one operation carrying the wrapped read
\* error; index stays j and the failed Read is the last Read.
C7_ReadFailure ==
    term = "fail" =>
        LET j == Len(chunks) IN
        /\ reads = j + 1
        /\ index = j
        /\ Len(Stream) = j + 1
        /\ \A k \in 1..j : Stream[k].Error = NoError /\ Stream[k].Index = k - 1
        /\ Stream[j + 1].Error = ReadError
        /\ pc \in {"sendErr", "ret", "done"}

C7_Witness == term = "fail" /\ closed /\ Len(chunks) = 2 /\ Len(out) = 3

\* C8: the operations without Error carry the ordinals 0, 1, ..., k-1 in that
\* order: the operation of the n-th chunk read (from 0) has Index n, and an
\* operation with an Error comes last.
C8_Ordinals ==
    /\ \A k \in 1..Len(Stream) :
         \/ Stream[k].Error = NoError /\ Stream[k].Index = k - 1 /\ k <= Len(chunks)
         \/ Stream[k].Error # NoError /\ k = Len(Stream) /\ k = Len(chunks) + 1
    /\ pc \in {"select", "read"} => index = Len(chunks)

C8_Witness ==
    /\ Len(out) = 2
    /\ out[1].Error = NoError /\ out[1].Index = 0
    /\ out[2].Error = NoError /\ out[2].Index = 1

\* the k-th (from 1) block-sized chunk of the local file
FileChunk(k) ==
    SubSeq(file, (k - 1) * DefaultBlockSize + 1, Min(k * DefaultBlockSize, Len(file)))

\* the block-sized chunks the local file has
NumChunks == (Len(file) + DefaultBlockSize - 1) \div DefaultBlockSize

\* the remote checksums were computed, without error, from a (non-empty) file
\* identical to the local one, with the same chunk boundaries
Identical ==
    /\ NumChunks >= 1
    /\ Len(remote) = NumChunks
    /\ \A k \in 1..NumChunks : remote[k].blk = FileChunk(k) /\ ~remote[k].err

\* C9: checksums of an identical file: every operation emitted is a reuse of a
\* remote block whose content is the chunk, none is a literal.
C9_IdenticalAllReuse ==
    Identical =>
        \A k \in 1..Len(out) :
            out[k].Error = NoError =>
                /\ IsReuse(out[k])
                /\ out[k].IndexB < Len(remote)
                /\ RemoteBlock(out[k].IndexB) = FileChunk(k)

\* C10: no checksum delivered: every operation emitted is a literal whose Data
\* is the bytes of its chunk of the local file.
C10_NoSumsAllLiteral ==
    Len(remote) = 0 =>
        \A k \in 1..Len(out) :
            out[k].Error = NoError =>
                IsLiteral(out[k]) /\ DataBytes(out[k]) = FileChunk(k)

TerminalMade ==
    \/ term = "eof"
    \/ term \in {"cancel", "fail"} /\ ErrorOps # {}

\* C12: after a terminal transition of the scanner no operation is emitted
\* and nothing is read, whatever the consumer and the canceller do.
C12_NothingAfterTerminal ==
    [][TerminalMade =>
          (out' = out /\ chunks' = chunks /\ reads' = reads /\ TerminalMade')]_vars

\* a terminal operation was emitted after two chunks and ctx cancelled since
C12_Witness ==
    /\ TerminalMade
    /\ term = "fail"
    /\ pc = "done"
    /\ Len(out) = 3
    /\ ctxDone
    /\ cancelPc \in {"ret", "done"}

\* the candidates of the bucket of blk's weak checksum
Bucket(blk) == t[rollingHash(blk)]

\* the positions in that bucket of the candidates whose Strong is the strong
\* hash of blk
Matches(blk) == {i \in 1..Len(Bucket(blk)) : Bucket(blk)[i].Strong = Digest(blk)}

\* the least number of a non-empty set of numbers
Least(S) == CHOOSE i \in S : \A j \in S : i <= j

\* C13: several candidates of the bucket have the strong hash of the chunk (and
\* shash yields that hash): the operation refers to the first of them in
\* bucket order, the earliest inserted.
C13_FirstMatchWins ==
    (/\ pc = "send"
     /\ Sum(shash, CurChunk) = Digest(CurChunk)
     /\ Cardinality(Matches(CurChunk)) >= 2)
        => op.IndexB = Bucket(CurChunk)[Least(Matches(CurChunk))].Index

\* the positions in the bucket of the candidates the comparison of the loop
\* takes for a match of blk
Compared(blk) ==
    {i \in 1..Len(Bucket(blk)) : Bucket(blk)[i].Strong = Sum(shash, blk)}

\* C14: a remote block whose checksum carried an Error is never matched: the
\* candidate whose match gave the operation its IndexB carries no Error.
C14_ErrorEntryNeverMatched ==
    pc = "send" =>
        \A i \in Compared(CurChunk) :
            Bucket(CurChunk)[i].Index = op.IndexB => ~Bucket(CurChunk)[i].Error

\* the checksums the producer sends on c, in order
AllSums == [i \in 1..Len(remote) |-> RemoteSum(i - 1, remote[i].blk, remote[i].err)]

\* those of them delivered so far
Delivered == SubSeq(AllSums, 1, Len(AllSums) - Len(cin))

\* the entries of sums with the weak checksum w, in their order
RECURSIVE WithWeak(_, _)
WithWeak(sums, w) ==
    IF sums = <<>> THEN <<>>
    ELSE IF Head(sums).Weak = w
         THEN <<Head(sums)>> \o WithWeak(Tail(sums), w)
         ELSE WithWeak(Tail(sums), w)

\* C15: no entry aborts the table construction: every checksum delivered, with
\* or without Error, is in the bucket of its weak checksum, in order of
\* arrival, and the builder ends only when all were consumed.
C15_AllFoldedInOrder ==
    /\ \A w \in DOMAIN t : t[w] = WithWeak(Delivered, w)
    /\ pc # "range" => Delivered = AllSums

\* the table is built, with a bucket of two entries, one of them with an Error
C15_Witness ==
    /\ pc # "range"
    /\ \E w \in DOMAIN t :
         /\ Len(t[w]) = 2
         /\ t[w][1].Error
         /\ ~t[w][2].Error

\* C16: gather then scan: a step reads a chunk, makes or emits an operation
\* only when c is closed and every checksum is in the table, and no step that
\* ends with the scanner started changes the table.
C16_GatherThenScan ==
    [][/\ (reads' # reads \/ out' # out \/ op' # op)
            => (pc # "range" /\ cclosed /\ cin = <<>>)
       /\ pc' # "range"
            => (cclosed /\ cin = <<>> /\ t' = t /\ Delivered = AllSums)]_vars

\* the scanner is sending an operation made with a table of two checksums
C16_Witness ==
    /\ pc = "send"
    /\ Len(AllSums) = 2
    /\ Len(t[0]) + Len(t[1]) = 2

\* the operations the scanner has made: one for each chunk read, and the
\* terminal one of a cancellation or a read failure
Produced == Len(chunks) + (IF term \in {"cancel", "fail"} THEN 1 ELSE 0)

\* C17: backpressure: at most one operation is made and not yet received, it is
\* the one the scanner is blocked sending, and a chunk is read only when the
\* operations of all the chunks before it have been received.
C17_Backpressure ==
    /\ Produced - Len(out) \in {0, 1}
    /\ Produced - Len(out) = 1 <=> Sending
    /\ pc = "read" => Len(out) = Len(chunks)

\* the operation of the second chunk waits for the consumer, the first was received
C17_Witness ==
    /\ pc = "send"
    /\ Len(chunks) = 2
    /\ Len(out) = 1

\* C18: o is closed by one step only, taken on a terminal path when every
\* operation made has been received; once o is closed nothing is sent and it
\* is not closed again; after end-of-input no operation received carries an
\* Error, after a cancellation or a read failure only the last one does.
C18_ClosedOnceAtEnd ==
    [][/\ closed => (closed' /\ pc = "done" /\ pc' = "done" /\ out' = out /\ ~Sending')
       /\ (~closed /\ closed') =>
            /\ term # ""
            /\ out' = out
            /\ Produced = Len(out)
            /\ term = "eof" => ErrorOps = {}
            /\ term # "eof" => ErrorOps = {Len(out)}]_vars

\* o is closed after end-of-input, two operations having been received
C18_Witness ==
    /\ closed
    /\ term = "eof"
    /\ Len(out) = 2
    /\ ErrorOps = {}

\* Sync is in its range loop and c is neither closed nor delivering
BuilderBlocked == pc = "range" /\ cin = <<>> /\ ~cclosed

\* C19: while c is neither closed nor delivering, no step of Sync or of its
\* goroutine can be taken, cancelled context or not; and as long as c is not
\* closed Sync has not returned, the scanner has made no terminal transition and
\* no operation, that of a cancellation included, was made or emitted.
C19_BuilderIgnoresCancel ==
    /\ BuilderBlocked => ~ENABLED (Builder \/ Scanner)
    /\ ~cclosed => (pc = "range" /\ term = "" /\ op = ZeroOp /\ out = <<>>)

\* ctx is cancelled and Sync waits for the next checksum, one being folded
C19_Witness ==
    /\ BuilderBlocked
    /\ ctxDone
    /\ Len(Delivered) >= 1

\* C20: the cancellation is taken up only by the check at the top of the loop,
\* and a scanner blocked in a send, of a normal or of a terminal operation,
\* leaves it only by a receive of that operation on the stream; whatever else
\* happens, the cancellation of ctx included, it stays in the same send with the
\* stream open and unchanged.
C20_SendReleasedOnlyByReceive ==
    [][/\ Sending => \/ out' = Append(out, op) /\ pc' \in {"inc", "ret"}
                     \/ pc' = pc /\ op' = op /\ out' = out /\ term' = term
                        /\ ~closed /\ ~closed'
       /\ (term # "cancel" /\ term' = "cancel") => (pc = "select" /\ ctxDone)]_vars

\* ctx was cancelled while the scanner was sending a normal operation, and the
\* scanner is still in that send
C20_Witness ==
    /\ pc = "send"
    /\ ctxDone
    /\ cancelPc = "send"
    /\ cancelAt = Len(out)
    /\ Len(out) >= 1

====
